---- MODULE Spec2Model ----
(***************************************************************************)
(* A model of onmt/io/HierarchicalTextDataset.py:                          *)
(*   - ShardedHierarchicalTextCorpusIterator (the generator returned by    *)
(*     __iter__, advanced one next() call at a time),                      *)
(*   - HierarchicalTextDataset.__init__ (join, dynamic dictionary, filter),*)
(*   - HierarchicalTextDataset.collapse_copy_scores,                       *)
(*   - the corpus readers (_example_dict_iter and read_text_dir).          *)
(*                                                                         *)
(* A file is the sequence of its lines, a line the sequence of its tokens  *)
(* (tokens carry no feature fields).  Python indices are zero-based and    *)
(* kept zero-based where the code stores them (file_index, indices,        *)
(* stoi values, score columns).                                            *)
(***************************************************************************)
EXTENDS Integers, Sequences, FiniteSets, TLC

VARIABLES
    corpus,         \* [side -> sequence of files]: os.listdir order of each directory
    shard_size,     \* constructor argument of the src iterator
    line_truncate,  \* constructor argument (post_truncate is set equal to it)
    filelist,       \* [side -> file ids still to come], self.filelist
    cur_pos,        \* [side -> Nat], self.cur_pos
    file_index,     \* [side -> Int], self.file_index
    eof,            \* [side -> BOOLEAN], self.eof
    gen,            \* [side -> generator frame of __iter__: pc, iteration_index, next_size]
    err,            \* the exception that left the program, "" while none
    mode,           \* how the generators of a shard are consumed: "zip", "seq" or "solo"
    turn,           \* whose next() is called next: "src", "tgt", "drained", "idle"
    out,            \* [side -> example dicts yielded in the current shard]
    yielded,        \* [side -> file ids yielded since construction] (history)
    ds,             \* the dataset built from the current shard (HierarchicalTextDataset)
    scores,         \* collapse_copy_scores: the score tensor [position][b][column]
    prev,           \* the score tensor before the last collapse (history)
    tgt_vocab,      \* collapse_copy_scores: shared target vocabulary (itos)
    batch,          \* collapse_copy_scores: [batch_size, indices]
    passes,         \* number of collapses applied so far
    dirout          \* examples produced by read_text_dir

vars == <<corpus, shard_size, line_truncate, filelist, cur_pos, file_index, eof,
          gen, err, mode, turn, out, yielded, ds, scores, prev, tgt_vocab,
          batch, passes, dirout>>

iterVars == <<filelist, cur_pos, file_index, eof, gen, err, mode, turn, out, yielded>>
collapseVars == <<scores, prev, tgt_vocab, batch, passes>>

----------------------------------------------------------------------------
(* Bounds of the model *)

MaxFiles == 3       \* files per corpus directory
MaxShard == 7       \* largest shard_size tried
MaxTrunc == 1       \* largest line_truncate tried in the sharding runs
MaxSeqLen == 2      \* largest src_seq_length / tgt_seq_length tried
MaxLines == 7       \* lines of a document in the reader runs
MaxLineTrunc == 2   \* largest line_truncate tried in the reader runs
MaxBatch == 2       \* largest batch_size
MaxCoef == 2        \* score rows are c |-> (a*c + k) % ScoreMod, a, k \in 0..MaxCoef
MaxPasses == 2      \* collapses applied to one score tensor

----------------------------------------------------------------------------
(* Python and library primitives *)

Min(a, b) == IF a < b THEN a ELSE b
Max(a, b) == IF a > b THEN a ELSE b

\* seq[start:]
PySliceFrom(s, start) ==
    LET n  == Len(s)
        lo == IF start < 0 THEN Max(n + start, 0) ELSE Min(start, n)
    IN  SubSeq(s, lo + 1, n)

\* seq[:stop]
PySliceTo(s, stop) ==
    LET n  == Len(s)
        hi == IF stop < 0 THEN Max(n + stop, 0) ELSE Min(stop, n)
    IN  SubSeq(s, 1, hi)

RECURSIVE Flatten(_)
\* [w for seq in src for w in seq]
Flatten(ss) == IF ss = <<>> THEN <<>> ELSE Head(ss) \o Flatten(Tail(ss))

RECURSIVE SumSeq(_)
SumSeq(s) == IF s = <<>> THEN 0 ELSE Head(s) + SumSeq(Tail(s))

UNK_WORD == "<unk>"
PAD_WORD == "<blank>"
\* the token alphabet, in alphabetical order
Words == <<"a", "b", "c">>
Rank(w) == CHOOSE i \in 1..Len(Words) : Words[i] = w

Count(tokens, w) == Cardinality({i \in DOMAIN tokens : tokens[i] = w})

RECURSIVE SortWords(_, _)
\* words by descending frequency, ties alphabetically
SortWords(W, tokens) ==
    IF W = {} THEN <<>>
    ELSE LET best == CHOOSE w \in W : \A v \in W :
                        \/ Count(tokens, w) > Count(tokens, v)
                        \/ Count(tokens, w) = Count(tokens, v) /\ Rank(w) <= Rank(v)
         IN  <<best>> \o SortWords(W \ {best}, tokens)

\* torchtext.vocab.Vocab(Counter(tokens), specials=[UNK_WORD, PAD_WORD]).itos
Vocab(tokens) ==
    <<UNK_WORD, PAD_WORD>> \o
    SortWords({tokens[i] : i \in DOMAIN tokens} \ {UNK_WORD, PAD_WORD}, tokens)

\* vocab.stoi[w]: a defaultdict, 0 (the unknown word) for a word it does not hold
Stoi(vocab, w) ==
    IF \E i \in DOMAIN vocab : vocab[i] = w
    THEN (CHOOSE i \in DOMAIN vocab : vocab[i] = w) - 1
    ELSE 0

\* os.path.getsize: each token is one character, tokens of a line are separated by
\* one space and every line ends with a newline
LineBytes(line) == IF line = <<>> THEN 1 ELSE 2 * Len(line)
GetSize(file) == SumSeq([j \in DOMAIN file |-> LineBytes(file[j])])

\* extract_text_features on tokens without feature fields
extract_text_features(line) == [words |-> line, feats |-> <<>>, n_feats |-> 0]

----------------------------------------------------------------------------
(* The corpus readers *)

TRUNC_OUTER_START == -5
\* False
TRUNC_OUTER_END == 0

\* line.strip().split(), then line[:truncate] when truncate is set
TruncLine(line, truncate) ==
    IF truncate # 0 THEN PySliceTo(line, truncate) ELSE line

\* the start offset taken with the wrong sign: sents[5:]
OuterTruncateSignSlip(sents) == PySliceFrom(sents, -TRUNC_OUTER_START)

\* example_dict[side][TRUNC_OUTER_START:], then [:TRUNC_OUTER_END]
OuterTruncate(sents) ==
    LET a == IF TRUNC_OUTER_START # 0 THEN PySliceFrom(sents, TRUNC_OUTER_START)
             ELSE sents
    IN  IF TRUNC_OUTER_END # 0 THEN PySliceTo(a, TRUNC_OUTER_END) ELSE a

\* the lines the src branch iterates: those with e[0] < post_truncate when set
LinesRead(file, post_truncate) ==
    IF post_truncate # 0
    THEN SelectSeq([j \in DOMAIN file |-> <<j - 1, file[j]>>],
                   LAMBDA e : e[1] < post_truncate)
    ELSE [j \in DOMAIN file |-> <<j - 1, file[j]>>]

\* ShardedHierarchicalTextCorpusIterator._example_dict_iter(path, index)
ExampleDictIter(file, index, side, truncate) ==
    IF side = "tgt"
    THEN LET line == TruncLine(Flatten(file), truncate)
         IN  [tgt |-> extract_text_features(line).words, indices |-> index]
    ELSE LET es    == LinesRead(file, truncate)
             sents == [j \in DOMAIN es |->
                          extract_text_features(TruncLine(es[j][2], truncate)).words]
         IN  [src |-> OuterTruncate(sents), indices |-> index]

\* HierarchicalTextDataset.read_text_dir, src side: one example per file
ReadTextDirSrc(files, truncate) ==
    [i \in DOMAIN files |->
        [src |-> OuterTruncate([j \in DOMAIN files[i] |->
                     extract_text_features(TruncLine(files[i][j], truncate)).words]),
         indices |-> i - 1]]

----------------------------------------------------------------------------
(* The inputs of the sharding runs *)

Sides == {"src", "tgt"}

\* the files a source directory may hold (sizes 0, 2, 4 and 6 bytes)
DocSet == { <<>>,
            << <<"a">> >>,
            << <<"b", "a">> >>,
            << <<"a", "b">>, <<"c">> >> }

\* the k-th file of the target directory: k % 3 lines of one token each
TgtDoc(k) == [j \in 1..(k % 3) |-> <<Words[((k + j) % 3) + 1]>>]

SeqsUpTo(S, n) == UNION {[1..k -> S] : k \in 0..n}

Ids(files) == [k \in DOMAIN files |-> k]

\* the generator frame of __iter__; next_size = -1 stands for the unassigned local
NoGen  == [pc |-> "none", iteration_index |-> -1, next_size |-> -1]
NewGen == [pc |-> "ready", iteration_index |-> -1, next_size |-> -1]

NoDataset == [built |-> FALSE]

NoScores == <<>>
NoBatch == [batch_size |-> 0, indices |-> <<>>]

\* the iterator whose steps self follows, "none" in independent mode
assoc_iter(self) == IF self = "tgt" THEN "src" ELSE "none"

\* ShardedHierarchicalTextCorpusIterator.__init__ for both sides
IterInit ==
    /\ filelist = [s \in Sides |-> Ids(corpus[s])]
    /\ cur_pos = [s \in Sides |-> 0]
    /\ file_index = [s \in Sides |-> -1]
    /\ eof = [s \in Sides |-> FALSE]
    /\ gen = [s \in Sides |-> NoGen]
    /\ err = ""
    /\ mode = "zip"
    /\ turn = "idle"
    /\ out = [s \in Sides |-> <<>>]
    /\ yielded = [s \in Sides |-> <<>>]

CollapseIdle ==
    /\ scores = NoScores
    /\ prev = NoScores
    /\ tgt_vocab = <<>>
    /\ batch = NoBatch
    /\ passes = 0

Init ==
    /\ \E files \in SeqsUpTo(DocSet, MaxFiles), ntgt \in 0..MaxFiles :
          corpus = [src |-> files, tgt |-> [k \in 1..ntgt |-> TgtDoc(k)]]
    /\ shard_size \in 0..MaxShard
    /\ line_truncate \in 0..MaxTrunc
    /\ IterInit
    /\ ds = NoDataset
    /\ CollapseIdle
    /\ dirout = <<>>

----------------------------------------------------------------------------
(* ShardedHierarchicalTextCorpusIterator.__iter__, one next() call per step *)

Other(self) == IF self = "src" THEN "tgt" ELSE "src"

\* the consumer of the two generators: zip() alternates src, tgt and stops at the
\* first StopIteration; "seq" drains src and then tgt; "solo" drains the one
\* generator of an iterator used on its own
AfterYield(self) == IF mode = "zip" THEN Other(self) ELSE self
AfterStop(self) ==
    IF mode = "zip" THEN "drained"
    ELSE IF mode = "seq" /\ self = "src" THEN "tgt" ELSE "drained"

Running(self) == turn = self /\ err = "" /\ gen[self].pc = "ready"

\* a boundary that forgets to chain the file back
ChainDropsPath(path, rest) == rest

\* chain([path], self.filelist)
Chain(path, rest) == <<path>> \o rest

\* self.shard_size != 0 and self.cur_pos >= 0
Sharding(self) == shard_size # 0 /\ cur_pos[self] >= 0

\* next_size + self.cur_pos >= self.shard_size
Overflows(next_size, pos) == next_size + pos >= shard_size

\* iter(self): a new generator; the dataset of the previous shard is dropped
StartShard ==
    /\ turn \in {"idle", "drained"}
    /\ err = ""
    /\ mode' \in {"zip", "seq"}
    /\ gen' = [s \in Sides |-> NewGen]
    /\ out' = [s \in Sides |-> <<>>]
    /\ ds' = NoDataset
    /\ turn' = "src"
    /\ UNCHANGED <<corpus, shard_size, line_truncate, filelist, cur_pos,
                   file_index, eof, err, yielded, collapseVars, dirout>>

\* independent mode: self.filelist.next() raises, the stream has ended
NextEof(self) ==
    /\ Running(self) /\ assoc_iter(self) = "none"
    /\ filelist[self] = <<>>
    /\ eof' = [eof EXCEPT ![self] = TRUE]
    /\ gen' = [gen EXCEPT ![self].pc = "done"]
    /\ turn' = AfterStop(self)
    /\ UNCHANGED <<corpus, shard_size, line_truncate, filelist, cur_pos,
                   file_index, err, mode, out, yielded, ds, collapseVars, dirout>>

\* independent mode: the next file would reach the budget; it is chained back
NextBoundary(self) ==
    /\ Running(self) /\ assoc_iter(self) = "none"
    /\ filelist[self] # <<>>
    /\ LET path == Head(filelist[self])
           next_size == GetSize(corpus[self][path])
       IN  /\ Sharding(self)
           /\ Overflows(next_size, cur_pos[self])
           /\ cur_pos' = [cur_pos EXCEPT ![self] = 0]
           /\ filelist' = [filelist EXCEPT ![self] = Chain(path, Tail(filelist[self]))]
           /\ gen' = [gen EXCEPT ![self].pc = "done", ![self].next_size = next_size]
    /\ turn' = AfterStop(self)
    /\ UNCHANGED <<corpus, shard_size, line_truncate, file_index, eof, err,
                   mode, out, yielded, ds, collapseVars, dirout>>

\* independent mode: the file is added to the shard and its example yielded
NextYield(self) ==
    /\ Running(self) /\ assoc_iter(self) = "none"
    /\ filelist[self] # <<>>
    /\ LET path == Head(filelist[self])
           next_size == IF Sharding(self) THEN GetSize(corpus[self][path])
                        ELSE gen[self].next_size
           index == gen[self].iteration_index + 1
       IN  /\ ~(Sharding(self) /\ Overflows(next_size, cur_pos[self]))
           /\ next_size # -1
           /\ filelist' = [filelist EXCEPT ![self] = Tail(filelist[self])]
           /\ cur_pos' = [cur_pos EXCEPT ![self] = cur_pos[self] + next_size]
           /\ file_index' = [file_index EXCEPT ![self] = file_index[self] + 1]
           /\ gen' = [gen EXCEPT ![self].iteration_index = index,
                                 ![self].next_size = next_size]
           /\ out' = [out EXCEPT ![self] = Append(out[self],
                         ExampleDictIter(corpus[self][path], index, self, line_truncate))]
           /\ yielded' = [yielded EXCEPT ![self] = Append(yielded[self], path)]
    /\ turn' = AfterYield(self)
    /\ UNCHANGED <<corpus, shard_size, line_truncate, eof, err, mode, ds,
                   collapseVars, dirout>>

\* independent mode: self.cur_pos += next_size with next_size never assigned
NextUnbound(self) ==
    /\ Running(self) /\ assoc_iter(self) = "none"
    /\ filelist[self] # <<>>
    /\ ~Sharding(self)
    /\ gen[self].next_size = -1
    /\ filelist' = [filelist EXCEPT ![self] = Tail(filelist[self])]
    /\ gen' = [gen EXCEPT ![self].pc = "raised"]
    /\ err' = "UnboundLocalError"
    /\ UNCHANGED <<corpus, shard_size, line_truncate, cur_pos, file_index, eof,
                   mode, turn, out, yielded, ds, collapseVars, dirout>>

\* while self.file_index < self.assoc_iter.file_index
Behind(self) == file_index[self] < file_index[assoc_iter(self)]

\* associate-locked mode: one more file to run parallel with the associate
AssocYield(self) ==
    /\ Running(self) /\ assoc_iter(self) # "none"
    /\ Behind(self)
    /\ filelist[self] # <<>>
    /\ LET path == Head(filelist[self])
           index == gen[self].iteration_index + 1
       IN  /\ filelist' = [filelist EXCEPT ![self] = Tail(filelist[self])]
           /\ file_index' = [file_index EXCEPT ![self] = file_index[self] + 1]
           /\ gen' = [gen EXCEPT ![self].iteration_index = index]
           /\ out' = [out EXCEPT ![self] = Append(out[self],
                         ExampleDictIter(corpus[self][path], index, self, line_truncate))]
           /\ yielded' = [yielded EXCEPT ![self] = Append(yielded[self], path)]
    /\ turn' = AfterYield(self)
    /\ UNCHANGED <<corpus, shard_size, line_truncate, cur_pos, eof, err, mode,
                   ds, collapseVars, dirout>>

\* associate-locked mode: no file left while behind the associate
AssocMismatch(self) ==
    /\ Running(self) /\ assoc_iter(self) # "none"
    /\ Behind(self)
    /\ filelist[self] = <<>>
    /\ gen' = [gen EXCEPT ![self].pc = "raised"]
    /\ err' = "AssertionError"
    /\ UNCHANGED <<corpus, shard_size, line_truncate, filelist, cur_pos,
                   file_index, eof, mode, turn, out, yielded, ds, collapseVars, dirout>>

\* associate-locked mode: caught up, the associate has more shards to come
AssocCaughtUp(self) ==
    /\ Running(self) /\ assoc_iter(self) # "none"
    /\ ~Behind(self)
    /\ ~eof[assoc_iter(self)]
    /\ gen' = [gen EXCEPT ![self].pc = "done"]
    /\ turn' = AfterStop(self)
    /\ UNCHANGED <<corpus, shard_size, line_truncate, filelist, cur_pos,
                   file_index, eof, err, mode, out, yielded, ds, collapseVars, dirout>>

\* associate-locked mode: caught up and the associate is at its end; self.eof is
\* set and self.corpus.close() is called on an attribute the class never sets
AssocClose(self) ==
    /\ Running(self) /\ assoc_iter(self) # "none"
    /\ ~Behind(self)
    /\ eof[assoc_iter(self)]
    /\ eof' = [eof EXCEPT ![self] = TRUE]
    /\ gen' = [gen EXCEPT ![self].pc = "raised"]
    /\ err' = "AttributeError"
    /\ UNCHANGED <<corpus, shard_size, line_truncate, filelist, cur_pos,
                   file_index, mode, turn, out, yielded, ds, collapseVars, dirout>>

----------------------------------------------------------------------------
(* HierarchicalTextDataset.__init__ on the examples of one shard *)

\* _join_dicts(src, tgt): one dict from both, the later dict's value for a shared key
JoinDicts(s, t) == [src |-> s.src, tgt |-> t.tgt, indices |-> t.indices]

\* zip(src_examples_iter, tgt_examples_iter) joined pair by pair
JoinedExamples(srcs, tgts) ==
    [k \in 1..Min(Len(srcs), Len(tgts)) |-> JoinDicts(srcs[k], tgts[k])]

\* the local vocabulary of one example
SrcVocab(example) == Vocab(Flatten(example.src))

\* _dynamic_dict on one example: src_map and alignment are added
WithMaps(example) ==
    LET src_vocab == SrcVocab(example)
    IN  [src |-> example.src, tgt |-> example.tgt, indices |-> example.indices,
         src_map |-> [i \in DOMAIN example.src |->
                        [j \in DOMAIN example.src[i] |-> Stoi(src_vocab, example.src[i][j])]],
         alignment |-> <<0>> \o [j \in DOMAIN example.tgt |->
                                    Stoi(src_vocab, example.tgt[j])] \o <<0>>]

\* the vocabulary inserted at the front instead of appended
PrependVocab(src_vocabs, src_vocab) == <<src_vocab>> \o src_vocabs

\* self.src_vocabs.append(src_vocab)
AppendVocab(src_vocabs, src_vocab) == Append(src_vocabs, src_vocab)

RECURSIVE DynamicDictVocabs(_, _)
\* self.src_vocabs after _dynamic_dict has run over examples_iter
DynamicDictVocabs(examples, src_vocabs) ==
    IF examples = <<>> THEN src_vocabs
    ELSE DynamicDictVocabs(Tail(examples),
                           AppendVocab(src_vocabs, SrcVocab(Head(examples))))

\* the examples _dynamic_dict yields
DynamicDictExamples(examples) == [k \in DOMAIN examples |-> WithMaps(examples[k])]

\* def filter_pred(example)
filter_pred(example, src_seq_length, tgt_seq_length) ==
    /\ 0 < Len(example.src) /\ Len(example.src) <= src_seq_length
    /\ 0 < Len(example.tgt) /\ Len(example.tgt) <= tgt_seq_length

\* the third argument of the base class constructor: lambda(x): True
PassedPred(example) == TRUE

\* torchtext Dataset.__init__: examples = filter(filter_pred, examples)
DatasetExamples(out_examples) == SelectSeq(out_examples, PassedPred)

\* HierarchicalTextDataset.__init__ on a non-empty stream of joined examples
BuildDataset(joined, src_seq_length, tgt_seq_length, dynamic_dict, use_filter_pred) ==
    LET out_examples == IF dynamic_dict THEN DynamicDictExamples(joined) ELSE joined
    IN  [built |-> TRUE,
         src_seq_length |-> src_seq_length,
         tgt_seq_length |-> tgt_seq_length,
         dynamic_dict |-> dynamic_dict,
         use_filter_pred |-> use_filter_pred,
         src_vocabs |-> IF dynamic_dict THEN DynamicDictVocabs(joined, <<>>) ELSE <<>>,
         out_examples |-> out_examples,
         examples |-> DatasetExamples(out_examples)]

\* the dataset is built from a shard that yielded at least one example
Assemble ==
    /\ turn = "drained" /\ err = "" /\ ~ds.built
    /\ LET joined == JoinedExamples(out["src"], out["tgt"])
       IN  /\ joined # <<>>
           /\ \E src_seq_length \in 0..MaxSeqLen, tgt_seq_length \in 0..MaxSeqLen,
                 dynamic_dict \in BOOLEAN, use_filter_pred \in BOOLEAN :
                 ds' = BuildDataset(joined, src_seq_length, tgt_seq_length,
                                    dynamic_dict, use_filter_pred)
    /\ UNCHANGED <<corpus, shard_size, line_truncate, iterVars, collapseVars, dirout>>

\* the shard yielded no example: _peek calls next() on an exhausted iterator
AssembleEmpty ==
    /\ turn = "drained" /\ err = "" /\ ~ds.built
    /\ JoinedExamples(out["src"], out["tgt"]) = <<>>
    /\ err' = "StopIteration"
    /\ UNCHANGED <<corpus, shard_size, line_truncate, filelist, cur_pos, file_index,
                   eof, gen, mode, turn, out, yielded, ds, collapseVars, dirout>>

\* ShardedHierarchicalTextCorpusIterator.hit_end
hit_end(self) == eof[self]

Next ==
    \/ StartShard
    \/ NextEof("src")
    \/ NextBoundary("src")
    \/ NextYield("src")
    \/ NextUnbound("src")
    \/ AssocYield("tgt")
    \/ AssocMismatch("tgt")
    \/ AssocCaughtUp("tgt")
    \/ AssocClose("tgt")
    \/ Assemble
    \/ AssembleEmpty

Spec == Init /\ [][Next]_vars

----------------------------------------------------------------------------
(* Properties of the sharded iterators *)

NFiles(self) == Len(corpus[self])

\* the files yielded in the current shard (the last Len(out) of those yielded)
ShardFiles(self) ==
    SubSeq(yielded[self], Len(yielded[self]) - Len(out[self]) + 1, Len(yielded[self]))

ShardBytes(self) ==
    SumSeq([k \in DOMAIN ShardFiles(self) |-> GetSize(corpus[self][ShardFiles(self)[k]])])

\* the generator of the current shard has returned or raised
Finished(self) == gen[self].pc \in {"done", "raised"}

\* the generator signalled a shard boundary: it returned with files left
AtBoundary(self) == gen[self].pc = "done" /\ filelist[self] # <<>>

\* C1: in independent mode with budget B > 0 no shard's cumulative file size
\* exceeds B unless the shard is a single file that alone exceeds B, and such a
\* file is yielded as a shard on its own: a shard never ends empty in front of
\* a file larger than B.
C1_ShardWithinBudget ==
    shard_size > 0 =>
        /\ ShardBytes("src") > shard_size => Len(ShardFiles("src")) = 1
        /\ ( /\ AtBoundary("src")
             /\ GetSize(corpus["src"][Head(filelist["src"])]) > shard_size )
           => ShardFiles("src") # <<>>

\* the two iterators have stopped for good: an exception left the program, or
\* the associate hit its end and the shard was drained
Ended == err # "" \/ (hit_end("src") /\ turn = "drained")

\* C2: with equal file counts N, the associate and the iterator locked to it
\* end with the same file_index, N-1, whatever the file sizes and the budget.
C2_EndAtLastFile ==
    (NFiles("src") = NFiles("tgt") /\ Ended) =>
        /\ file_index["src"] = NFiles("src") - 1
        /\ file_index["tgt"] = NFiles("src") - 1

\* The lock-step itself: the locked iterator is never ahead of its associate,
\* is level with it whenever a shard is drained, and both stand on the last
\* file once the associate has hit its end.
LockStep ==
    /\ file_index["tgt"] <= file_index["src"]
    /\ (turn = "drained" /\ err = "") => file_index["tgt"] = file_index["src"]
    /\ (hit_end("src") /\ turn = "drained" /\ err = "") =>
          file_index["src"] = NFiles("src") - 1

\* C3: when the associate has reached end-of-stream and the locked iterator,
\* done with the shard, still has unconsumed files, the count-mismatch error
\* has been raised.
C3_MismatchRaised ==
    ( /\ hit_end("src")
      /\ turn = "drained" \/ err # ""
      /\ filelist["tgt"] # <<>> )
    => err = "AssertionError"

\* C4: with shard_size = 0 an iteration of the independent iterator ends only
\* with every file yielded, no boundary signalled, and end-of-stream set.
C4_ZeroNeverSplits ==
    (shard_size = 0 /\ Finished("src")) =>
        /\ yielded["src"] = Ids(corpus["src"])
        /\ filelist["src"] = <<>>
        /\ hit_end("src")

\* files are yielded in file-list order, none skipped, none twice, and what is
\* left of the file list is the rest
InListOrder(self) ==
    /\ yielded[self] = SubSeq(Ids(corpus[self]), 1, Len(yielded[self]))
    /\ shard_size # 0 =>
          filelist[self] = SubSeq(Ids(corpus[self]), Len(yielded[self]) + 1, NFiles(self))

----------------------------------------------------------------------------
(* Properties of the assembled dataset *)

\* C6: with the dynamic dictionary enabled, src_vocabs has one entry per example
\* in emission order, and src_vocabs[example.indices] is the vocabulary of that
\* example's own src tokens.
C6_VocabPerExample ==
    (ds.built /\ ds.dynamic_dict) =>
        /\ Len(ds.src_vocabs) = Len(ds.out_examples)
        /\ \A k \in DOMAIN ds.examples :
              LET ex == ds.examples[k]
              IN  /\ ex.indices = k - 1
                  /\ ex.indices + 1 \in DOMAIN ds.src_vocabs
                  /\ ds.src_vocabs[ex.indices + 1] = Vocab(Flatten(ex.src))

\* a dataset of three examples whose first and last vocabularies differ
C6_Witness ==
    /\ ds.built /\ ds.dynamic_dict
    /\ Len(ds.examples) = 3
    /\ ds.src_vocabs[1] # ds.src_vocabs[3]
    /\ Len(ds.src_vocabs[2]) > 2

\* C7: with filtering enabled and both bounds configured the dataset keeps
\* exactly the examples with 0 < len(src) <= src_seq_length and
\* 0 < len(tgt) <= tgt_seq_length; with filtering disabled it keeps all.
C7_FilterApplied ==
    ds.built =>
        /\ (ds.use_filter_pred /\ ds.src_seq_length # 0 /\ ds.tgt_seq_length # 0) =>
              ds.examples = SelectSeq(ds.out_examples,
                  LAMBDA e : filter_pred(e, ds.src_seq_length, ds.tgt_seq_length))
        /\ ~ds.use_filter_pred => ds.examples = ds.out_examples

----------------------------------------------------------------------------
(* The corpus readers applied to one document *)

\* the lines a document may hold
LineSet == { <<"a">>, <<"b", "c", "a">> }

InitRead ==
    /\ \E file \in SeqsUpTo(LineSet, MaxLines) :
          corpus = [src |-> <<file>>, tgt |-> <<>>]
    /\ shard_size = 0
    /\ line_truncate \in 0..MaxLineTrunc
    /\ IterInit
    /\ ds = NoDataset
    /\ CollapseIdle
    /\ dirout = <<>>

\* _example_dict_iter(path, index) on every file of the source directory
ReadExamples ==
    /\ out["src"] = <<>>
    /\ out' = [out EXCEPT !["src"] =
                  [k \in DOMAIN corpus["src"] |->
                      ExampleDictIter(corpus["src"][k], k - 1, "src", line_truncate)]]
    /\ UNCHANGED <<corpus, shard_size, line_truncate, filelist, cur_pos, file_index,
                   eof, gen, err, mode, turn, yielded, ds, collapseVars, dirout>>

\* read_text_dir(path, truncate, "src") run to its end
ReadTextDir ==
    /\ dirout = <<>>
    /\ dirout' = ReadTextDirSrc(corpus["src"], line_truncate)
    /\ UNCHANGED <<corpus, shard_size, line_truncate, iterVars, ds, collapseVars>>

NextRead == ReadExamples \/ ReadTextDir

SpecRead == InitRead /\ [][NextRead]_vars

Abs(x) == IF x < 0 THEN -x ELSE x

\* the sentences _example_dict_iter reads of a file of m lines
SentencesRead(m) == IF line_truncate # 0 THEN Min(m, line_truncate) ELSE m

\* C9 as claimed: a document of m sentences read with start offset s < 0 and no
\* end offset yields an example of min(m, m - |s|) sentences.
C9_AsClaimed ==
    (TRUNC_OUTER_START < 0 /\ TRUNC_OUTER_END = 0) =>
        \A k \in DOMAIN out["src"] :
            LET m == Len(corpus["src"][k])
            IN  Len(out["src"][k].src) = Min(m, m - Abs(TRUNC_OUTER_START))

\* the last n elements of a sequence
LastOf(s, n) == SubSeq(s, Len(s) - n + 1, Len(s))

\* the sentences of a file after the per-line truncation
Sentences(file) == [j \in DOMAIN file |-> TruncLine(file[j], line_truncate)]

\* C9 as amended: the example holds min(m, |s|) sentences, the last ones, where m
\* counts the sentences read: every line in read_text_dir, and in the sharded
\* iterator only the first line_truncate lines when line_truncate is set.
C9_SuffixWindow ==
    (TRUNC_OUTER_START < 0 /\ TRUNC_OUTER_END = 0) =>
        /\ \A k \in DOMAIN out["src"] :
              LET file == corpus["src"][k]
                  m    == SentencesRead(Len(file))
                  n    == Min(m, Abs(TRUNC_OUTER_START))
              IN  /\ Len(out["src"][k].src) = n
                  /\ out["src"][k].src = LastOf(SubSeq(Sentences(file), 1, m), n)
        /\ \A k \in DOMAIN dirout :
              LET file == corpus["src"][k]
                  n    == Min(Len(file), Abs(TRUNC_OUTER_START))
              IN  /\ Len(dirout[k].src) = n
                  /\ dirout[k].src = LastOf(Sentences(file), n)

\* a document longer than the window has been read by both readers
C9_Witness ==
    /\ out["src"] # <<>> /\ dirout # <<>>
    /\ line_truncate = 0
    /\ Len(corpus["src"][1]) > Abs(TRUNC_OUTER_START)
    /\ Len(out["src"][1].src) = Abs(TRUNC_OUTER_START)
    /\ Len(dirout[1].src) = Abs(TRUNC_OUTER_START)

----------------------------------------------------------------------------
(* HierarchicalTextDataset.collapse_copy_scores *)

\* scores[:, b].index_fill_(1, blank, 1e-10); scores are counted in units of it
EPS == 1

BOS_WORD == "<s>"
EOS_WORD == "</s>"

\* the shared target vocabularies tried (itos)
TgtVocabSet ==
    { <<UNK_WORD, PAD_WORD, BOS_WORD, EOS_WORD>> \o ws :
        ws \in { <<>>, <<"b">>, <<"c", "a">> } }

\* the zero-based local indices i in range(1, len(src_vocab)) whose word has a
\* shared index ti != 0, in increasing order
MatchesNoUnkTest(src_vocab, tv) == [i \in 1..(Len(src_vocab) - 1) |-> i]

Matches(src_vocab, tv) ==
    SelectSeq([i \in 1..(Len(src_vocab) - 1) |-> i],
              LAMBDA i : Stoi(tv, src_vocab[i + 1]) # 0)

RECURSIVE IndexAdd(_, _, _)
\* row.index_add_(1, index, source): source[j] is added to column index[j]
IndexAdd(row, index, source) ==
    IF index = <<>> THEN row
    ELSE IndexAdd([row EXCEPT ![Head(index)] = @ + Head(source)],
                  Tail(index), Tail(source))

\* row.index_fill_(1, index, value)
IndexFill(row, index, value) ==
    [c \in DOMAIN row |-> IF \E j \in DOMAIN index : index[j] = c THEN value ELSE row[c]]

\* a collapse that adds the copies but leaves the expanded columns as they were
CollapseRowNoFill(row, src_vocab, tv) ==
    LET offset == Len(tv)
        ms     == Matches(src_vocab, tv)
        blank  == [j \in DOMAIN ms |-> offset + ms[j]]
        fill   == [j \in DOMAIN ms |-> Stoi(tv, src_vocab[ms[j] + 1])]
    IN  IF blank # <<>>
        THEN IndexAdd(row, fill, [j \in DOMAIN blank |-> row[blank[j]]])
        ELSE row

\* the body of "for b in range(batch.batch_size)" on scores[t, b]
CollapseRow(row, src_vocab, tv) ==
    LET offset == Len(tv)
        ms     == Matches(src_vocab, tv)
        blank  == [j \in DOMAIN ms |-> offset + ms[j]]
        fill   == [j \in DOMAIN ms |-> Stoi(tv, src_vocab[ms[j] + 1])]
    IN  IF blank # <<>>
        THEN IndexFill(IndexAdd(row, fill, [j \in DOMAIN blank |-> row[blank[j]]]),
                       blank, EPS)
        ELSE row

\* src_vocabs[batch.indices.data[b]]
BatchVocab(b, src_vocabs) == src_vocabs[batch.indices[b] + 1]

collapse_copy_scores(sc, src_vocabs) ==
    [t \in DOMAIN sc |->
        [b \in DOMAIN sc[t] |-> CollapseRow(sc[t][b], BatchVocab(b, src_vocabs), tgt_vocab)]]

\* the examples of a dataset whose source documents are docs
ExamplesOf(docs) ==
    [k \in DOMAIN docs |->
        JoinDicts(ExampleDictIter(docs[k], k - 1, "src", 0),
                  ExampleDictIter(TgtDoc(k), k - 1, "tgt", 0))]

MaxOf(S) == CHOOSE x \in S : \A y \in S : y <= x

\* positions of the score tensor
Positions == 1..2

InitCollapse ==
    /\ corpus = [src |-> <<>>, tgt |-> <<>>]
    /\ shard_size = 0
    /\ line_truncate = 0
    /\ IterInit
    /\ dirout = <<>>
    /\ passes = 0
    /\ prev = NoScores
    /\ tgt_vocab \in TgtVocabSet
    /\ \E docs \in SeqsUpTo(DocSet, MaxBatch) \ {<<>>} :
          ds = BuildDataset(ExamplesOf(docs), 0, 0, TRUE, FALSE)
    /\ \E n \in 1..MaxBatch :
          \E ix \in [1..n -> 0..(Len(ds.src_vocabs) - 1)] :
              batch = [batch_size |-> n, indices |-> ix]
    /\ \E a \in 0..MaxCoef, k \in 0..MaxCoef :
          LET V == Len(tgt_vocab) +
                   MaxOf({Len(BatchVocab(b, ds.src_vocabs)) : b \in 1..batch.batch_size})
          IN  scores = [t \in Positions |-> [b \in 1..batch.batch_size |->
                          [c \in 0..(V - 1) |-> (a * c + k + b + t) % (2 * MaxCoef + 1)]]]

\* scores = collapse_copy_scores(scores, batch, tgt_vocab, dataset.src_vocabs)
Collapse ==
    /\ passes < MaxPasses
    /\ prev' = scores
    /\ scores' = collapse_copy_scores(scores, ds.src_vocabs)
    /\ passes' = passes + 1
    /\ UNCHANGED <<corpus, shard_size, line_truncate, iterVars, ds, tgt_vocab,
                   batch, dirout>>

NextCollapse == Collapse

SpecCollapse == InitCollapse /\ [][NextCollapse]_vars

\* the shared index ti of the local word at zero-based index i of batch element b
SharedIndex(b, i) == Stoi(tgt_vocab, BatchVocab(b, ds.src_vocabs)[i + 1])

\* the local indices i >= 1 of batch element b whose word is in the target vocabulary
Collapsed(b) ==
    {i \in 1..(Len(BatchVocab(b, ds.src_vocabs)) - 1) : SharedIndex(b, i) # 0}

\* C8 as claimed: a second collapse of an already collapsed score matrix leaves
\* every entry unchanged.
C8_AsClaimed == passes >= 2 => scores = prev

\* C8 as amended: a second collapse leaves every entry unchanged except the
\* shared columns ti of the local words found in the target vocabulary, each of
\* which grows by the epsilon the first collapse left in the expanded column.
C8_SecondPassAddsEps ==
    passes >= 2 =>
        \A t \in DOMAIN scores : \A b \in DOMAIN scores[t] : \A c \in DOMAIN scores[t][b] :
            scores[t][b][c] =
                IF \E i \in Collapsed(b) : SharedIndex(b, i) = c
                THEN prev[t][b][c] + EPS
                ELSE prev[t][b][c]

\* a second collapse has changed the score matrix
C8_Witness ==
    /\ passes = 2
    /\ scores # prev
    /\ \E b \in 1..batch.batch_size : \E i \in Collapsed(b) : i >= 2

\* C10: after a collapse, for every batch element b and local index i >= 1 whose
\* word has a non-zero shared index ti, column ti holds its old value plus the
\* old value of column offset+i and column offset+i holds epsilon; every other
\* column of b is unchanged.
C10_CollapseFrame ==
    passes >= 1 =>
        \A t \in DOMAIN scores : \A b \in DOMAIN scores[t] : \A c \in DOMAIN scores[t][b] :
            LET offset == Len(tgt_vocab)
            IN  IF \E i \in Collapsed(b) : SharedIndex(b, i) = c
                THEN \E i \in Collapsed(b) :
                        /\ SharedIndex(b, i) = c
                        /\ scores[t][b][c] = prev[t][b][c] + prev[t][b][offset + i]
                ELSE IF \E i \in Collapsed(b) : offset + i = c
                THEN scores[t][b][c] = EPS
                ELSE scores[t][b][c] = prev[t][b][c]

\* one collapse of a batch of two elements with different local vocabularies, where
\* a local word was merged into the target vocabulary and another local word,
\* absent from it, kept a score other than epsilon in the expanded region
C10_Witness ==
    /\ passes = 1
    /\ batch.batch_size = 2
    /\ batch.indices[1] # batch.indices[2]
    /\ \E b \in 1..2 :
          /\ \E i \in Collapsed(b) : i >= 2
          /\ \E i \in 2..(Len(BatchVocab(b, ds.src_vocabs)) - 1) :
                /\ i \notin Collapsed(b)
                /\ scores[1][b][Len(tgt_vocab) + i] > EPS

----------------------------------------------------------------------------
(* The independent iterator on its own: for ... in iterator, shard after shard *)

InitSolo ==
    /\ \E files \in SeqsUpTo(DocSet, MaxFiles) : corpus = [src |-> files, tgt |-> <<>>]
    /\ shard_size \in 0..MaxShard
    /\ line_truncate \in 0..MaxTrunc
    /\ IterInit
    /\ ds = NoDataset
    /\ CollapseIdle
    /\ dirout = <<>>

\* iter(self) on the source iterator alone: the generator of the next shard
IterateShard ==
    /\ turn \in {"idle", "drained"}
    /\ err = ""
    /\ mode' = "solo"
    /\ gen' = [gen EXCEPT !["src"] = NewGen]
    /\ out' = [out EXCEPT !["src"] = <<>>]
    /\ turn' = "src"
    /\ UNCHANGED <<corpus, shard_size, line_truncate, filelist, cur_pos,
                   file_index, eof, err, yielded, ds, collapseVars, dirout>>

NextSolo ==
    \/ IterateShard
    \/ NextEof("src")
    \/ NextBoundary("src")
    \/ NextYield("src")
    \/ NextUnbound("src")

\* the caller is one sequential loop: while a step is possible, one is taken
SpecSolo == InitSolo /\ [][NextSolo]_vars /\ WF_vars(NextSolo)

\* every file has been yielded and the end-of-stream flag is set
AllYielded(self) == hit_end(self) /\ yielded[self] = Ids(corpus[self])

\* once set, the end-of-stream flag stays set
EofStable == [][hit_end("src") => hit_end("src")']_vars

\* C11: in independent mode with budget B > 0, iterating shard after shard
\* terminates: after finitely many shards every file has been yielded and the
\* end-of-stream flag is set, and once set the flag never becomes false again.
C11_ShardingTerminates ==
    /\ <>(shard_size = 0 \/ AllYielded("src"))
    /\ [][hit_end("src") => hit_end("src")']_vars

====
